---- MODULE Spec2Model ----
(***************************************************************************)
(* Model of src/app.py: the client-pool lifecycle of the backend.          *)
(*                                                                         *)
(* The program is single-threaded asyncio code.  Every task is modelled    *)
(* by a program counter that names the await it is suspended on; one       *)
(* action runs a task from the settlement of that await to its next        *)
(* await.  The outcome of every external call (Client.start, Client.stop,  *)
(* close_connections, the cache updater) is chosen nondeterministically.   *)
(* signal_handler is modelled by its body, entered with the signal bound   *)
(* to its parameter sig.                                                   *)
(***************************************************************************)
EXTENDS Integers, Sequences, FiniteSets, TLC

\* Largest secondary client identifier a configuration may contain.
MaxSec == 2
\* Number of termination signals delivered during one execution.
MaxSignals == 1

Ids == 0..MaxSec
SecIds == 1..MaxSec
\* Run 0 is the stop_clients() of the top-level finally block; run r > 0 is
\* the shutdown() task scheduled by the r-th signal.
Runs == 0..MaxSignals

\* The result "return None" of start_client.
None == <<>>

NotifKinds == {"started", "signal", "stopping", "stop_error", "cache_crash"}

VARIABLES
    CLIENTS_CONFIG,  \* set of client ids that have a configuration entry
    pcMain,          \* position of the module-level code / __main__ block
    loopStopping,    \* loop._stopping: loop.stop() was called while running
    pcInit,          \* position of the coroutine init()
    secTask,         \* secTask[i]: state of the task start_client(i, conf)
    clientState,     \* clientState[i]: state of the Client handle of id i
    multi_clients,   \* keys of the dict multi_clients, in insertion order
    work_loads,      \* the dict work_loads, a function id -> counter
    cacheTask,       \* state of cache_task and of its done callback
    crashCoros,      \* handle_cache_crash coroutine objects created
    notifs,          \* notifs[k]: number of send_info/send_error calls of kind k
    signals,         \* number of signals received so far
    pcRun,           \* pcRun[r]: position of shutdown run r
    runPos,          \* runPos[r]: index in multi_clients of the for loop of run r
    stopAttempts,    \* stopAttempts[r][i]: stop() calls of run r on client i
    stopFailed,      \* stopFailed[r]: ids whose stop() raised in run r
    stopPending      \* stopPending[r]: ids whose stop(), called by run r,
                     \* has not settled yet

vars == <<CLIENTS_CONFIG, pcMain, loopStopping, pcInit, secTask, clientState,
          multi_clients, work_loads, cacheTask, crashCoros, notifs, signals,
          pcRun, runPos, stopAttempts, stopFailed, stopPending>>

----------------------------------------------------------------------------
\* Helpers on the two dicts.

Range(s) == {s[k] : k \in 1..Len(s)}

RECURSIVE SetToSeq(_)
SetToSeq(S) ==
    IF S = {} THEN <<>>
    ELSE LET m == CHOOSE x \in S : \A y \in S : x <= y
         IN  <<m>> \o SetToSeq(S \ {m})

\* d[k] = handle on the dict of handles: a new key goes last.
DictSetKey(d, k) == IF k \in Range(d) THEN d ELSE Append(d, k)

RECURSIVE DictUpdate(_, _)
DictUpdate(d, ks) ==
    IF ks = <<>> THEN d ELSE DictUpdate(DictSetKey(d, Head(ks)), Tail(ks))

\* Variant that resets the counter of a known key only and adds no entry.
SetWorkload_ExistingOnly(w, k) ==
    [i \in DOMAIN w |-> IF i = k THEN 0 ELSE w[i]]

\* work_loads[k] = 0
SetWorkload(w, k) == [i \in DOMAIN w \cup {k} |-> IF i = k THEN 0 ELSE w[i]]

Bump(f, k) == [f EXCEPT ![k] = @ + 1]

\* Outcomes of a send_info / send_error call, TRUE for a normal return: the
\* notification collaborator logs its own failures and does not propagate
\* them.
NotifyOutcomes == {TRUE}

\* The event loop runs tasks only inside a run_until_complete call.
LoopRunning == pcMain \in {"run_init", "finally_run"}

----------------------------------------------------------------------------
Init ==
    /\ CLIENTS_CONFIG \in SUBSET Ids
    /\ pcMain = "load"
    /\ loopStopping = FALSE
    /\ pcInit = "notrun"
    /\ secTask = [i \in SecIds |-> "absent"]
    /\ clientState = [i \in Ids |-> "new"]
    /\ multi_clients = <<>>
    /\ work_loads = <<>>
    /\ cacheTask = "none"
    /\ crashCoros = 0
    /\ notifs = [k \in NotifKinds |-> 0]
    /\ signals = 0
    /\ pcRun = [r \in Runs |-> "none"]
    /\ runPos = [r \in Runs |-> 0]
    /\ stopAttempts = [r \in Runs |-> [i \in Ids |-> 0]]
    /\ stopFailed = [r \in Runs |-> {}]
    /\ stopPending = [r \in Runs |-> {}]

----------------------------------------------------------------------------
\* Module level and __main__.

\* Variant of the check that looks up identifier 1 instead of 0.
BotConfMissing_WrongKey == 1 \notin CLIENTS_CONFIG

\* bot_conf = CLIENTS_CONFIG.get(0); if not bot_conf: raise RuntimeError
BotConfMissing == 0 \notin CLIENTS_CONFIG

\* The module body: either the RuntimeError of line 50 ends the process, or
\* bot is built, the handlers are registered and run_until_complete(init())
\* runs init() up to "await bot.start()".
MainLoad ==
    /\ pcMain = "load"
    /\ IF BotConfMissing
         THEN /\ pcMain' = "config_error"
              /\ UNCHANGED pcInit
         ELSE /\ pcMain' = "run_init"
              /\ pcInit' = "bot_start"
    /\ UNCHANGED <<CLIENTS_CONFIG, loopStopping, secTask, clientState,
                   multi_clients, work_loads, cacheTask, crashCoros, notifs,
                   signals, pcRun, runPos, stopAttempts,
                   stopFailed, stopPending>>

\* Variant in which stop_clients() is run only when init() did not raise
\* (an else block in place of the finally block).
MainInitExit_NoCleanupOnError ==
    /\ pcMain = "run_init"
    /\ \/ pcInit \in {"returned", "start_failed", "init_failed",
                      "notify_failed"}
       \/ loopStopping
    /\ loopStopping' = FALSE
    /\ IF pcInit = "returned"
         THEN /\ pcMain' = "finally_run"
              /\ pcRun' = [pcRun EXCEPT ![0] = "created"]
         ELSE /\ pcMain' = "crashed"
              /\ UNCHANGED pcRun
    /\ UNCHANGED <<CLIENTS_CONFIG, pcInit, secTask, clientState, multi_clients,
                   work_loads, cacheTask, crashCoros, notifs, signals, runPos,
                   stopAttempts, stopFailed, stopPending>>

\* run_until_complete(init()) ends: init() returned or raised, or the loop
\* was stopped (RuntimeError "Event loop stopped before Future completed").
\* Every way out leads to the finally block, which schedules stop_clients().
MainInitExit ==
    /\ pcMain = "run_init"
    /\ \/ pcInit \in {"returned", "start_failed", "init_failed",
                      "notify_failed"}
       \/ loopStopping
    /\ pcMain' = "finally_run"
    /\ loopStopping' = FALSE
    /\ pcRun' = [pcRun EXCEPT ![0] = "created"]
    /\ UNCHANGED <<CLIENTS_CONFIG, pcInit, secTask, clientState, multi_clients,
                   work_loads, cacheTask, crashCoros, notifs, signals, runPos,
                   stopAttempts,
                   stopFailed, stopPending>>

\* run_until_complete(stop_clients()) of the finally block ends: normally
\* (then loop.stop() and exit), or with the exception of stop_clients, or
\* with the RuntimeError of a loop stopped by a shutdown() task.
MainFinallyExit ==
    /\ pcMain = "finally_run"
    /\ \/ pcRun[0] \in {"done", "raised"}
       \/ loopStopping
    /\ pcMain' = IF pcRun[0] = "done" THEN "exited" ELSE "crashed"
    /\ UNCHANGED <<CLIENTS_CONFIG, loopStopping, pcInit, secTask, clientState,
                   multi_clients, work_loads, cacheTask, crashCoros, notifs,
                   signals, pcRun, runPos, stopAttempts,
                   stopFailed, stopPending>>

----------------------------------------------------------------------------
\* start_client and initialize_clients.

\* additional_clients_conf: the configured ids other than 0, in dict order.
additional_clients_conf == SetToSeq(CLIENTS_CONFIG \ {0})

\* n = [create_task(start_client(i, conf)) for i, conf in ...]: every task is
\* created (none has run yet) before the coroutine reaches "await gather".
CreateTasks(conf) ==
    [i \in SecIds |-> IF i \in Range(conf) THEN "created" ELSE secTask[i]]

\* Variant that resumes the caller as soon as one task has a result
\* (a wait for the first completion instead of a gather).
GatherDone_FirstCompleted(conf) ==
    \E i \in Range(conf) : secTask[i] \in {"ok", "failed"}

\* gather(*n) without return_exceptions: start_client returns on every
\* Exception, so gather resumes the caller when every task has a result.
GatherDone(conf) == \A i \in Range(conf) : secTask[i] \in {"ok", "failed"}

\* The list gather returns: (client_id, client) for a started client, None
\* for a failed one, in the order of the tasks.  The handle of client i is
\* written i.
GatherResults(conf) ==
    [k \in 1..Len(conf) |->
        IF secTask[conf[k]] = "ok" THEN <<conf[k], conf[k]>> ELSE None]

\* {client_id: client for client_id, client in clients if client}: each
\* element is unpacked into two names before "if client" is evaluated, so a
\* None element raises TypeError.  Yields the keys kept, or raised = TRUE.
RECURSIVE FilterClients(_)
FilterClients(results) ==
    IF results = <<>> THEN [raised |-> FALSE, keys |-> <<>>]
    ELSE IF Len(Head(results)) # 2 THEN [raised |-> TRUE, keys |-> <<>>]
    ELSE LET rest == FilterClients(Tail(results))
         IN  [raised |-> rest.raised,
              keys   |-> <<Head(results)[1]>> \o rest.keys]

\* init() after initialize_clients() returned: the cache task is created and
\* its done callback attached, serve() is scheduled, and init suspends on
\* send_info(bot, "Bot Started Successfully!").
StartSupervised ==
    /\ cacheTask' = "running"
    /\ notifs' = Bump(notifs, "started")
    /\ pcInit' = "send_info"

\* "await bot.start()" settles.  On success init() runs initialize_clients()
\* up to its return (no secondary configured) or up to "await gather(*n)".
InitBotStart ==
    /\ LoopRunning
    /\ pcInit = "bot_start"
    /\ \E ok \in BOOLEAN :
         IF ~ok
           THEN /\ pcInit' = "start_failed"
                /\ UNCHANGED <<secTask, clientState, multi_clients, work_loads,
                               cacheTask, notifs>>
           ELSE /\ clientState' = [clientState EXCEPT ![0] = "started"]
                /\ multi_clients' = DictSetKey(multi_clients, 0)
                /\ work_loads' = SetWorkload(work_loads, 0)
                /\ IF additional_clients_conf = <<>>
                     THEN /\ StartSupervised
                          /\ UNCHANGED secTask
                     ELSE /\ secTask' = CreateTasks(additional_clients_conf)
                          /\ pcInit' = "gather"
                          /\ UNCHANGED <<cacheTask, notifs>>
    /\ UNCHANGED <<CLIENTS_CONFIG, pcMain, loopStopping, crashCoros, signals,
                   pcRun, runPos, stopAttempts,
                   stopFailed, stopPending>>

\* The task start_client(i, conf) runs up to "await Client(...).start()".
SecBegin(i) ==
    /\ LoopRunning
    /\ secTask[i] = "created"
    /\ secTask' = [secTask EXCEPT ![i] = "starting"]
    /\ UNCHANGED <<CLIENTS_CONFIG, pcMain, loopStopping, pcInit, clientState,
                   multi_clients, work_loads, cacheTask, crashCoros, notifs,
                   signals, pcRun, runPos, stopAttempts,
                   stopFailed, stopPending>>

\* Variant in which work_loads[i] = 0 is written whatever the outcome of
\* start() (the assignment placed outside the try block).
SecSettle_CounterOnFailure(i) ==
    /\ LoopRunning
    /\ secTask[i] = "starting"
    /\ work_loads' = SetWorkload(work_loads, i)
    /\ \E ok \in BOOLEAN :
         IF ok
           THEN /\ secTask' = [secTask EXCEPT ![i] = "ok"]
                /\ clientState' = [clientState EXCEPT ![i] = "started"]
           ELSE /\ secTask' = [secTask EXCEPT ![i] = "failed"]
                /\ UNCHANGED clientState
    /\ UNCHANGED <<CLIENTS_CONFIG, pcMain, loopStopping, pcInit, multi_clients,
                   cacheTask, crashCoros, notifs, signals, pcRun, runPos,
                   stopAttempts, stopFailed, stopPending>>

\* Client(...).start() of start_client(i, conf) settles: on success
\* work_loads[i] = 0 and the pair is returned; on an exception None is.
SecSettle(i) ==
    /\ LoopRunning
    /\ secTask[i] = "starting"
    /\ \E ok \in BOOLEAN :
         IF ok
           THEN /\ secTask' = [secTask EXCEPT ![i] = "ok"]
                /\ clientState' = [clientState EXCEPT ![i] = "started"]
                /\ work_loads' = SetWorkload(work_loads, i)
           ELSE /\ secTask' = [secTask EXCEPT ![i] = "failed"]
                /\ UNCHANGED <<clientState, work_loads>>
    /\ UNCHANGED <<CLIENTS_CONFIG, pcMain, loopStopping, pcInit, multi_clients,
                   cacheTask, crashCoros, notifs, signals, pcRun, runPos,
                   stopAttempts,
                   stopFailed, stopPending>>

\* gather resumes initialize_clients: the results are filtered and merged
\* into multi_clients, or the comprehension raises and init() ends with it.
InitGather ==
    /\ LoopRunning
    /\ pcInit = "gather"
    /\ GatherDone(additional_clients_conf)
    /\ LET f == FilterClients(GatherResults(additional_clients_conf))
       IN  IF f.raised
             THEN /\ pcInit' = "init_failed"
                  /\ UNCHANGED <<multi_clients, cacheTask, notifs>>
             ELSE /\ multi_clients' = DictUpdate(multi_clients, f.keys)
                  /\ StartSupervised
    /\ UNCHANGED <<CLIENTS_CONFIG, pcMain, loopStopping, secTask, clientState,
                   work_loads, crashCoros, signals, pcRun, runPos,
                   stopAttempts,
                   stopFailed, stopPending>>

\* send_info(bot, "Bot Started Successfully!") settles; init awaits idle().
InitSendInfo ==
    /\ LoopRunning
    /\ pcInit = "send_info"
    /\ \E ok \in NotifyOutcomes :
         pcInit' = IF ok THEN "idle" ELSE "notify_failed"
    /\ UNCHANGED <<CLIENTS_CONFIG, pcMain, loopStopping, secTask, clientState,
                   multi_clients, work_loads, cacheTask, crashCoros, notifs,
                   signals, pcRun, runPos, stopAttempts,
                   stopFailed, stopPending>>

\* idle() returns and init() with it.
InitIdleReturn ==
    /\ LoopRunning
    /\ pcInit = "idle"
    /\ pcInit' = "returned"
    /\ UNCHANGED <<CLIENTS_CONFIG, pcMain, loopStopping, secTask, clientState,
                   multi_clients, work_loads, cacheTask, crashCoros, notifs,
                   signals, pcRun, runPos, stopAttempts,
                   stopFailed, stopPending>>

----------------------------------------------------------------------------
\* The supervised cache task.

\* cache_manager.start_cache_updater() ends, normally or with an exception.
CacheTaskEnds ==
    /\ LoopRunning
    /\ cacheTask = "running"
    /\ \E ok \in BOOLEAN : cacheTask' = IF ok THEN "completed" ELSE "failed"
    /\ UNCHANGED <<CLIENTS_CONFIG, pcMain, loopStopping, pcInit, secTask,
                   clientState, multi_clients, work_loads, crashCoros, notifs,
                   signals, pcRun, runPos, stopAttempts,
                   stopFailed, stopPending>>

\* The done callback: lambda t: handle_cache_crash(t) if t.exception() else
\* None.  handle_cache_crash is a coroutine function: the call only builds a
\* coroutine object, which the callback returns and nobody awaits or
\* schedules, so its body (the logging and the send_error) never runs.
CacheDoneCallback ==
    /\ LoopRunning
    /\ cacheTask \in {"completed", "failed"}
    /\ IF cacheTask = "failed"
         THEN /\ crashCoros' = crashCoros + 1
              /\ cacheTask' = "crash_observed"
         ELSE /\ cacheTask' = "end_observed"
              /\ UNCHANGED crashCoros
    /\ UNCHANGED <<CLIENTS_CONFIG, pcMain, loopStopping, pcInit, secTask,
                   clientState, multi_clients, work_loads, notifs, signals,
                   pcRun, runPos, stopAttempts, stopFailed, stopPending>>

----------------------------------------------------------------------------
\* signal_handler, shutdown and stop_clients.

\* Variant in which the handler starts the shutdown itself instead of
\* scheduling it: the signal notification is issued inside the handler.
Signal_RunsInline ==
    /\ pcMain \in {"run_init", "finally_run"}
    /\ signals < MaxSignals
    /\ signals' = signals + 1
    /\ pcRun' = [pcRun EXCEPT ![signals + 1] = "sig_info"]
    /\ notifs' = Bump(notifs, "signal")
    /\ UNCHANGED <<CLIENTS_CONFIG, pcMain, loopStopping, pcInit, secTask,
                   clientState, multi_clients, work_loads, cacheTask,
                   crashCoros, runPos, stopAttempts, stopFailed, stopPending>>

\* A signal arrives while the handlers are registered: signal_handler
\* schedules a new shutdown() task with loop.create_task.
Signal ==
    /\ pcMain \in {"run_init", "finally_run"}
    /\ signals < MaxSignals
    /\ signals' = signals + 1
    /\ pcRun' = [pcRun EXCEPT ![signals + 1] = "created"]
    /\ UNCHANGED <<CLIENTS_CONFIG, pcMain, loopStopping, pcInit, secTask,
                   clientState, multi_clients, work_loads, cacheTask,
                   crashCoros, notifs, runPos, stopAttempts,
                   stopFailed, stopPending>>

\* The task shutdown() starts and suspends on send_info(bot, "Signal ...").
ShutdownBegin(r) ==
    /\ LoopRunning
    /\ r > 0
    /\ pcRun[r] = "created"
    /\ pcRun' = [pcRun EXCEPT ![r] = "sig_info"]
    /\ notifs' = Bump(notifs, "signal")
    /\ UNCHANGED <<CLIENTS_CONFIG, pcMain, loopStopping, pcInit, secTask,
                   clientState, multi_clients, work_loads, cacheTask,
                   crashCoros, signals, runPos, stopAttempts,
                   stopFailed, stopPending>>

\* stop_clients() is entered, by shutdown() after its send_info or by the
\* task of the finally block, and suspends on
\* send_info(bot, "Stopping all clients ...").
StopClientsBegin(r) ==
    /\ LoopRunning
    /\ pcRun[r] = IF r = 0 THEN "created" ELSE "sig_info"
    /\ \E ok \in NotifyOutcomes :
         IF r > 0 /\ ~ok
           THEN /\ pcRun' = [pcRun EXCEPT ![r] = "raised"]
                /\ UNCHANGED notifs
           ELSE /\ pcRun' = [pcRun EXCEPT ![r] = "stop_info"]
                /\ notifs' = Bump(notifs, "stopping")
    /\ UNCHANGED <<CLIENTS_CONFIG, pcMain, loopStopping, pcInit, secTask,
                   clientState, multi_clients, work_loads, cacheTask,
                   crashCoros, signals, runPos, stopAttempts,
                   stopFailed, stopPending>>

\* send_info settles; shutdowndb() has no await of its own, so
\* close_connections() runs in the same step: if either raises, stop_clients
\* ends with the exception, otherwise bot.stop() is called and awaited.
StopInfoSettles(r) ==
    /\ LoopRunning
    /\ pcRun[r] = "stop_info"
    /\ \E ok \in NotifyOutcomes, dbOk \in BOOLEAN :
         IF ok /\ dbOk
           THEN /\ pcRun' = [pcRun EXCEPT ![r] = "bot_stop"]
                /\ stopAttempts' = [stopAttempts EXCEPT ![r][0] = @ + 1]
                /\ stopPending' = [stopPending EXCEPT ![r] = @ \cup {0}]
           ELSE /\ pcRun' = [pcRun EXCEPT ![r] = "raised"]
                /\ UNCHANGED <<stopAttempts, stopPending>>
    /\ UNCHANGED <<CLIENTS_CONFIG, pcMain, loopStopping, pcInit, secTask,
                   clientState, multi_clients, work_loads, cacheTask,
                   crashCoros, notifs, signals, runPos, stopFailed>>

\* Index of the next item of multi_clients after pos whose client_id != 0,
\* or 0 when the for loop is exhausted.
NextSecondary(d, pos) ==
    LET later == {k \in (pos + 1)..Len(d) : d[k] # 0}
    IN  IF later = {} THEN 0
        ELSE CHOOSE k \in later : \A j \in later : k <= j

\* Variant of the loop step in which client.stop() is called without being
\* awaited: the call is issued and stop_clients returns at once.
ForNext_StopNotAwaited(r, pos) ==
    LET k == NextSecondary(multi_clients, pos)
        settled == IF pos = 0 THEN 0 ELSE multi_clients[pos]
    IN  /\ pcRun' = [pcRun EXCEPT ![r] = "done"]
        /\ runPos' = [runPos EXCEPT ![r] = 0]
        /\ loopStopping' = IF r > 0 THEN TRUE ELSE loopStopping
        /\ IF k = 0
             THEN /\ stopPending' = [stopPending EXCEPT ![r] = @ \ {settled}]
                  /\ UNCHANGED stopAttempts
             ELSE /\ stopAttempts' =
                         [stopAttempts EXCEPT ![r][multi_clients[k]] = @ + 1]
                  /\ stopPending' = [stopPending EXCEPT
                         ![r] = (@ \ {settled}) \cup {multi_clients[k]}]

\* Variant in which the stops of all remaining secondary clients are issued
\* together (a gather over the stops) before any of them is awaited.
ForNext_FanOut(r, pos) ==
    LET k == NextSecondary(multi_clients, pos)
        settled == IF pos = 0 THEN 0 ELSE multi_clients[pos]
        rest == {multi_clients[j] : j \in (pos + 1)..Len(multi_clients)} \ {0}
    IN  IF k = 0
          THEN /\ pcRun' = [pcRun EXCEPT ![r] = "done"]
               /\ runPos' = [runPos EXCEPT ![r] = 0]
               /\ loopStopping' = IF r > 0 THEN TRUE ELSE loopStopping
               /\ stopPending' = [stopPending EXCEPT ![r] = @ \ {settled}]
               /\ UNCHANGED stopAttempts
          ELSE /\ pcRun' = [pcRun EXCEPT ![r] = "sec_stop"]
               /\ runPos' = [runPos EXCEPT ![r] = k]
               /\ stopAttempts' = [stopAttempts EXCEPT ![r] =
                      [i \in Ids |-> IF i \in rest /\ i \notin stopPending[r]
                                       THEN @[i] + 1 ELSE @[i]]]
               /\ stopPending' = [stopPending EXCEPT
                      ![r] = (@ \ {settled}) \cup rest]
               /\ UNCHANGED loopStopping

\* The for loop of stop_clients goes on after position pos: it calls stop()
\* on the next secondary client and suspends, or it is exhausted and
\* stop_clients returns; shutdown() then calls loop.stop().
ForNext(r, pos) ==
    LET k == NextSecondary(multi_clients, pos)
        settled == IF pos = 0 THEN 0 ELSE multi_clients[pos]
    IN  IF k = 0
          THEN /\ pcRun' = [pcRun EXCEPT ![r] = "done"]
               /\ runPos' = [runPos EXCEPT ![r] = 0]
               /\ loopStopping' = IF r > 0 THEN TRUE ELSE loopStopping
               /\ stopPending' = [stopPending EXCEPT ![r] = @ \ {settled}]
               /\ UNCHANGED stopAttempts
          ELSE /\ pcRun' = [pcRun EXCEPT ![r] = "sec_stop"]
               /\ runPos' = [runPos EXCEPT ![r] = k]
               /\ stopAttempts' =
                      [stopAttempts EXCEPT ![r][multi_clients[k]] = @ + 1]
               /\ stopPending' = [stopPending EXCEPT
                      ![r] = (@ \ {settled}) \cup {multi_clients[k]}]
               /\ UNCHANGED loopStopping

\* "await bot.stop()" settles.  It is outside every try block: an exception
\* ends stop_clients (and shutdown()) at once.  Otherwise the for loop
\* starts.
BotStopSettles(r) ==
    /\ LoopRunning
    /\ pcRun[r] = "bot_stop"
    /\ \E ok \in BOOLEAN :
         IF ok
           THEN /\ clientState' = [clientState EXCEPT ![0] = "stopped"]
                /\ ForNext(r, 0)
                /\ UNCHANGED stopFailed
           ELSE /\ pcRun' = [pcRun EXCEPT ![r] = "raised"]
                /\ stopFailed' = [stopFailed EXCEPT ![r] = @ \cup {0}]
                /\ stopPending' = [stopPending EXCEPT ![r] = @ \ {0}]
                /\ UNCHANGED <<clientState, runPos, stopAttempts,
                               loopStopping>>
    /\ UNCHANGED <<CLIENTS_CONFIG, pcMain, pcInit, secTask, multi_clients,
                   work_loads, cacheTask, crashCoros, notifs, signals>>

\* "await client.stop()" of a secondary client settles: on success the loop
\* goes on, on an exception the except block awaits send_error.
SecStopSettles(r) ==
    /\ LoopRunning
    /\ pcRun[r] = "sec_stop"
    /\ \E ok \in BOOLEAN :
         IF ok
           THEN /\ clientState' =
                      [clientState EXCEPT
                          ![multi_clients[runPos[r]]] = "stopped"]
                /\ ForNext(r, runPos[r])
                /\ UNCHANGED <<notifs, stopFailed>>
           ELSE /\ pcRun' = [pcRun EXCEPT ![r] = "sec_err"]
                /\ notifs' = Bump(notifs, "stop_error")
                /\ stopFailed' = [stopFailed EXCEPT
                                    ![r] = @ \cup {multi_clients[runPos[r]]}]
                /\ stopPending' = [stopPending EXCEPT
                                     ![r] = @ \ {multi_clients[runPos[r]]}]
                /\ UNCHANGED <<clientState, runPos, stopAttempts,
                               loopStopping>>
    /\ UNCHANGED <<CLIENTS_CONFIG, pcMain, pcInit, secTask, multi_clients,
                   work_loads, cacheTask, crashCoros, signals>>

\* Variant in which the try block encloses the whole for loop: after the
\* send_error of the except block stop_clients returns.
SecErrSettles_LoopLeft(r) ==
    /\ LoopRunning
    /\ pcRun[r] = "sec_err"
    /\ pcRun' = [pcRun EXCEPT ![r] = "done"]
    /\ runPos' = [runPos EXCEPT ![r] = 0]
    /\ loopStopping' = IF r > 0 THEN TRUE ELSE loopStopping
    /\ UNCHANGED <<CLIENTS_CONFIG, pcMain, pcInit, secTask, clientState,
                   multi_clients, work_loads, cacheTask, crashCoros, notifs,
                   signals, stopAttempts, stopFailed, stopPending>>

\* send_error(bot, "Error stopping client ...") settles; the loop goes on.
SecErrSettles(r) ==
    /\ LoopRunning
    /\ pcRun[r] = "sec_err"
    /\ \E ok \in NotifyOutcomes :
         IF ok
           THEN ForNext(r, runPos[r])
           ELSE /\ pcRun' = [pcRun EXCEPT ![r] = "raised"]
                /\ UNCHANGED <<runPos, loopStopping, stopAttempts,
                               stopPending>>
    /\ UNCHANGED <<CLIENTS_CONFIG, pcMain, pcInit, secTask, clientState,
                   multi_clients, work_loads, cacheTask, crashCoros, notifs,
                   signals, stopFailed>>

----------------------------------------------------------------------------
Next ==
    \/ MainLoad
    \/ MainInitExit
    \/ MainFinallyExit
    \/ InitBotStart
    \/ \E i \in SecIds : SecBegin(i)
    \/ \E i \in SecIds : SecSettle(i)
    \/ InitGather
    \/ InitSendInfo
    \/ InitIdleReturn
    \/ CacheTaskEnds
    \/ CacheDoneCallback
    \/ Signal
    \/ \E r \in Runs : ShutdownBegin(r)
    \/ \E r \in Runs : StopClientsBegin(r)
    \/ \E r \in Runs : StopInfoSettles(r)
    \/ \E r \in Runs : BotStopSettles(r)
    \/ \E r \in Runs : SecStopSettles(r)
    \/ \E r \in Runs : SecErrSettles(r)

Spec == Init /\ [][Next]_vars

TypeOK ==
    /\ CLIENTS_CONFIG \subseteq Ids
    /\ pcMain \in {"load", "config_error", "run_init", "finally_run",
                   "exited", "crashed"}
    /\ loopStopping \in BOOLEAN
    /\ pcInit \in {"notrun", "bot_start", "gather", "send_info", "idle",
                   "returned", "start_failed", "init_failed",
                   "notify_failed"}
    /\ secTask \in [SecIds -> {"absent", "created", "starting", "ok", "failed"}]
    /\ clientState \in [Ids -> {"new", "started", "stopped"}]
    /\ Range(multi_clients) \subseteq Ids
    /\ DOMAIN work_loads \subseteq Ids
    /\ cacheTask \in {"none", "running", "completed", "failed",
                      "end_observed", "crash_observed"}
    /\ crashCoros \in 0..1
    /\ signals \in 0..MaxSignals
    /\ pcRun \in [Runs -> {"none", "created", "sig_info", "stop_info",
                           "bot_stop", "sec_stop", "sec_err", "done",
                           "raised"}]
    /\ runPos \in [Runs -> 0..(MaxSec + 1)]
    /\ stopFailed \in [Runs -> SUBSET Ids]
    /\ stopPending \in [Runs -> SUBSET Ids]

----------------------------------------------------------------------------
\* Properties.

\* Secondary ids of the configuration, and those whose start() succeeded.
ConfiguredSecondaries == CLIENTS_CONFIG \ {0}
StartedSecondaries == {i \in SecIds : secTask[i] = "ok"}

\* initialize_clients() has finished, by returning or by raising.
InitializeFinished ==
    pcInit \in {"send_info", "idle", "returned", "init_failed",
                "notify_failed"}

RECURSIVE SumAttempts(_, _)
SumAttempts(i, r) ==
    IF r < 0 THEN 0 ELSE stopAttempts[r][i] + SumAttempts(i, r - 1)

\* Number of stop() calls client i received, over all shutdown runs.
TotalStopAttempts(i) == SumAttempts(i, MaxSignals)

\* C1: once initialize_clients has finished, with K secondary clients
\* started out of the N configured, multi_clients holds exactly identifier 0
\* and the K started identifiers, and work_loads holds exactly those K+1
\* entries, all 0.
C1_PoolHoldsStartedClients ==
    InitializeFinished =>
        /\ Range(multi_clients) = {0} \cup StartedSecondaries
        /\ Len(multi_clients) = Cardinality(StartedSecondaries) + 1
        /\ DOMAIN work_loads = {0} \cup StartedSecondaries
        /\ \A i \in DOMAIN work_loads : work_loads[i] = 0

\* C2: initialize_clients never ends with an exception because secondary
\* clients failed to start; with every secondary failed the pool is {0}.
C2_InitializeNeverRaises ==
    /\ pcInit # "init_failed"
    /\ (InitializeFinished /\ StartedSecondaries = {})
           => Range(multi_clients) = {0}

C4_PrimaryStopFailureIsolated ==
    \A r \in Runs :
        (0 \in stopFailed[r] /\ pcRun[r] \in {"done", "raised"}) =>
            \A i \in Range(multi_clients) \ {0} : stopAttempts[r][i] = 1

\* C5: once the failure of the cache task has been observed by its done
\* callback, exactly one crash notification has been sent, and the failure
\* alone starts no shutdown run and does not stop the loop.
C5_CrashNotifiedOnce ==
    cacheTask = "crash_observed" =>
        /\ notifs["cache_crash"] = 1
        /\ (signals = 0 /\ pcMain = "run_init") =>
               (~loopStopping /\ \A r \in Runs : pcRun[r] = "none")

\* C6: work_loads has a counter for an identifier exactly when multi_clients
\* has a record for it, in every reachable state.
C6_CounterIffRecord ==
    DOMAIN work_loads = Range(multi_clients)

\* C7: at the moment a run of stop_clients completes, every client of
\* multi_clients, primary and secondary, has had exactly one stop attempt in
\* that run, whichever secondary stops failed, and every failed secondary
\* stop was reported by one send_error.
C7_EveryClientStoppedOnce ==
    [][\A r \in Runs :
          (pcRun[r] # "done" /\ pcRun'[r] = "done") =>
              /\ \A i \in Range(multi_clients') \cup {0} :
                     stopAttempts'[r][i] = 1
              /\ stopFailed'[r] \subseteq Range(multi_clients') \ {0}]_vars
    /\ [](notifs["stop_error"] =
              Cardinality({p \in Runs \X SecIds : p[2] \in stopFailed[p[1]]}))

\* C7 witness: a run completed although the stop of the first secondary
\* failed, and the second secondary was attempted after it.
C7_Witness ==
    \E r \in Runs :
        /\ pcRun[r] = "done"
        /\ Len(multi_clients) = 3
        /\ multi_clients[2] \in stopFailed[r]
        /\ stopAttempts[r][multi_clients[3]] = 1

\* C8: no secondary start_client runs before bot.start() has succeeded;
\* none runs before the task of every configured secondary is created; and
\* initialize_clients is not left, nor the cache task launched, before
\* every secondary start has settled.
C8_StartupOrdering ==
    /\ (\E i \in SecIds : secTask[i] \in {"starting", "ok", "failed"}) =>
           /\ clientState[0] # "new"
           /\ \A j \in ConfiguredSecondaries : secTask[j] # "absent"
    /\ (InitializeFinished \/ cacheTask # "none") =>
           \A j \in ConfiguredSecondaries : secTask[j] \in {"ok", "failed"}

\* C8 witness: initialize_clients was left after one secondary started and
\* another failed.
C8_Witness ==
    /\ InitializeFinished
    /\ \E i, j \in ConfiguredSecondaries :
           secTask[i] = "ok" /\ secTask[j] = "failed"

\* C9: within a run of stop_clients a secondary stop is attempted only
\* after the primary stop has been attempted and has settled; the run
\* completes, and shutdown() calls loop.stop(), only when every secondary of
\* multi_clients has had its stop attempted and no stop is still unsettled.
C9_ShutdownOrdering ==
    /\ [](\A r \in Runs :
             (\E i \in SecIds : stopAttempts[r][i] > 0) =>
                 /\ stopAttempts[r][0] = 1
                 /\ 0 \notin stopPending[r]
                 /\ 0 \notin stopFailed[r])
    /\ [](\A r \in Runs : pcRun[r] = "done" => stopPending[r] = {})
    /\ [][/\ \A r \in Runs :
                (pcRun[r] # "done" /\ pcRun'[r] = "done") =>
                    \A i \in Range(multi_clients') \ {0} :
                        stopAttempts'[r][i] >= 1
          /\ (~loopStopping /\ loopStopping') =>
                \E r \in Runs \ {0} :
                    /\ pcRun[r] # "done" /\ pcRun'[r] = "done"
                    /\ stopPending'[r] = {}
         ]_vars

\* C9 witness: a signal-triggered run has stopped two secondaries and
\* called loop.stop().
C9_Witness ==
    \E r \in Runs \ {0} :
        /\ pcRun[r] = "done"
        /\ loopStopping
        /\ \E i, j \in SecIds : i # j /\ stopAttempts[r][i] = 1
                                     /\ stopAttempts[r][j] = 1

\* C10: with no entry for identifier 0 in CLIENTS_CONFIG, no client start
\* is ever attempted and multi_clients and work_loads stay empty.
C10_MissingPrimaryConfigIsFatal ==
    (0 \notin CLIENTS_CONFIG) =>
        /\ pcMain \in {"load", "config_error"}
        /\ pcInit = "notrun"
        /\ \A i \in SecIds : secTask[i] = "absent"
        /\ \A i \in Ids : clientState[i] = "new"
        /\ multi_clients = <<>>
        /\ work_loads = <<>>

\* C10 witness: the module ended with the RuntimeError although secondary
\* clients were configured.
C10_Witness ==
    /\ pcMain = "config_error"
    /\ CLIENTS_CONFIG # {}

\* C11: when bot.start() fails in init(), no start_client task exists, the
\* cache task is not launched, multi_clients and work_loads are empty and no
\* client is started; and __main__ leaves run_until_complete(init()) only
\* by scheduling stop_clients().
C11_PrimaryStartFailureAborts ==
    pcInit = "start_failed" =>
        /\ \A i \in SecIds : secTask[i] = "absent"
        /\ cacheTask = "none"
        /\ multi_clients = <<>>
        /\ work_loads = <<>>
        /\ \A i \in Ids : clientState[i] # "started"
        /\ notifs["started"] = 0
        /\ pcMain # "run_init" => pcRun[0] # "none"

\* C11 witness: the primary start failed with secondaries configured and
\* the stop_clients() of the finally block is under way.
C11_Witness ==
    /\ pcInit = "start_failed"
    /\ ConfiguredSecondaries # {}
    /\ pcRun[0] = "stop_info"

\* C12: with a configuration that holds identifier 0 only, once bot.start()
\* has succeeded initialize_clients has returned normally, no start_client
\* task exists, multi_clients is exactly {0} and work_loads exactly {0: 0}.
C12_SingleClientPool ==
    (CLIENTS_CONFIG = {0} /\ pcInit \notin {"notrun", "bot_start",
                                            "start_failed"}) =>
        /\ pcInit \notin {"gather", "init_failed"}
        /\ \A i \in SecIds : secTask[i] = "absent"
        /\ multi_clients = <<0>>
        /\ DOMAIN work_loads = {0}
        /\ work_loads[0] = 0

\* C12 witness: a single-client configuration has reached idle().
C12_Witness ==
    /\ CLIENTS_CONFIG = {0}
    /\ pcInit = "idle"

\* C13: start_client always ends with a result: the pair (id, handle) when
\* start() succeeded, None when it failed; after a failure neither work_loads
\* nor multi_clients has an entry for the id.
C13_StartClientContained ==
    /\ \A i \in SecIds :
           /\ secTask[i] = "failed" =>
                  /\ i \notin DOMAIN work_loads
                  /\ i \notin Range(multi_clients)
                  /\ clientState[i] = "new"
           /\ secTask[i] = "ok" =>
                  /\ i \in DOMAIN work_loads
                  /\ work_loads[i] = 0
    /\ \A k \in 1..Len(additional_clients_conf) :
           LET i == additional_clients_conf[k]
               res == GatherResults(additional_clients_conf)[k]
           IN  /\ secTask[i] = "ok" => res = <<i, i>>
               /\ secTask[i] = "failed" => res = None

\* C13 witness: one start_client returned its pair and another returned
\* None.
C13_Witness ==
    \E i, j \in SecIds : secTask[i] = "ok" /\ secTask[j] = "failed"

C15_ShutdownStepsBestEffort ==
    \A r \in Runs : pcRun[r] = "raised" => stopAttempts[r][0] = 1

\* C16: the secondary stops of a run are fanned out: while the stop of one
\* secondary client has not settled, the stop of every other secondary
\* client of multi_clients has already been attempted.
C16_SecondaryStopsFanOut ==
    \A r \in Runs :
        (stopPending[r] \cap SecIds # {}) =>
            \A j \in Range(multi_clients) \ {0} : stopAttempts[r][j] >= 1

\* C16 as amended: the secondary stops of a run are sequential, in the order
\* of multi_clients: at most one stop() is unsettled at a time, and the stop
\* of a secondary client is attempted only when the stop of every earlier
\* one has been attempted and has settled.
C16_SecondaryStopsSequential ==
    \A r \in Runs :
        /\ Cardinality(stopPending[r]) <= 1
        /\ \A k \in 1..Len(multi_clients) :
               (multi_clients[k] # 0 /\ stopAttempts[r][multi_clients[k]] > 0)
                   => \A j \in 1..(k - 1) :
                          multi_clients[j] # 0 =>
                              /\ stopAttempts[r][multi_clients[j]] = 1
                              /\ multi_clients[j] \notin stopPending[r]

\* C16 witness: the stop of the first secondary has settled and the stop of
\* the second one is unsettled.
C16_Witness ==
    \E r \in Runs :
        /\ Len(multi_clients) = 3
        /\ stopAttempts[r][multi_clients[2]] = 1
        /\ stopPending[r] = {multi_clients[3]}

\* C17: every shutdown ends with the loop released: a shutdown() task that
\* has ended has called loop.stop(), and the __main__ block ends by its
\* loop.stop() of line 183, not by an exception.
C17_ShutdownReleasesLoop ==
    /\ \A r \in Runs \ {0} : pcRun[r] # "raised"
    /\ pcMain # "crashed"

\* C18: when the process has exited after the shutdown of the finally
\* block, every client whose start() succeeded has received a stop attempt.
C18_StartedClientsGetStopped ==
    pcMain = "exited" =>
        /\ \A i \in SecIds : secTask[i] = "ok" => TotalStopAttempts(i) >= 1
        /\ clientState[0] # "new" => TotalStopAttempts(0) >= 1

\* C19: a notification is issued through bot only while the primary client
\* is started: after bot.start() has succeeded and before any bot.stop()
\* has been attempted.
C19_NotifyOnlyWhileStarted ==
    [][(\E k \in NotifKinds : notifs'[k] # notifs[k]) =>
           /\ clientState'[0] = "started"
           /\ TotalStopAttempts(0) = 0]_vars

\* C20: stop() is called only on a handle that is started at that moment:
\* not on a client whose start() failed or was not reached, and not on a
\* client that has been stopped.
C20_StopOnlyStartedClients ==
    [][\A r \in Runs, i \in Ids :
           stopAttempts'[r][i] # stopAttempts[r][i] =>
               clientState'[i] = "started"]_vars

====
